---- MODULE Spec2Model ----
(***************************************************************************)
(* A model of package urlvalues (github.com/nahojer/urlvalues).            *)
(*                                                                         *)
(* Go strings are sequences of one-character strings, so that the string   *)
(* operations of the package (Split, SplitN, Join, TrimSpace, HasPrefix,   *)
(* the strconv parsers) are computed, not assumed.  A Go value is a record *)
(* tagged with its kind; a struct value is the sequence of its field       *)
(* values and a reflect.Value handle is a path into the destination.       *)
(***************************************************************************)
EXTENDS Integers, Sequences, FiniteSets, TLC

(***************************************************************************)
(* Bounds of the model.                                                    *)
(***************************************************************************)
\* The largest number of values one key of the input carries.
MaxValues == 2
\* The largest number of SetParseOptionFunc arguments of one call.
MaxOpts == 2
\* The largest number of parts after "now" in a value handed to parseTime.
MaxParts == 3
\* The depth of nested calls of extractFields the stack has room for.
MaxDepth == 4

(***************************************************************************)
(* Package strings.                                                        *)
(***************************************************************************)
\* strings.HasPrefix
HasPrefix(s, p) == Len(s) >= Len(p) /\ SubSeq(s, 1, Len(p)) = p

\* strings.Index, 1-based; 0 when sep does not occur in s.
Index(s, sep) ==
  LET hits == {i \in 1..(Len(s) - Len(sep) + 1) : SubSeq(s, i, i + Len(sep) - 1) = sep}
  IN IF hits = {} THEN 0 ELSE CHOOSE i \in hits : \A j \in hits : i <= j

\* strings.Split for a non-empty separator.
RECURSIVE Split(_, _)
Split(s, sep) ==
  LET i == Index(s, sep)
  IN IF i = 0 THEN <<s>>
     ELSE <<SubSeq(s, 1, i - 1)>> \o Split(SubSeq(s, i + Len(sep), Len(s)), sep)

\* strings.SplitN(s, sep, 2)
SplitN2(s, sep) ==
  LET i == Index(s, sep)
  IN IF i = 0 THEN <<s>>
     ELSE <<SubSeq(s, 1, i - 1), SubSeq(s, i + Len(sep), Len(s))>>

\* strings.Join
RECURSIVE Join(_, _)
Join(elems, sep) ==
  IF elems = <<>> THEN <<>>
  ELSE IF Len(elems) = 1 THEN elems[1]
  ELSE elems[1] \o sep \o Join(Tail(elems), sep)

\* strings.TrimSpace (the space is the only white space of the alphabet).
RECURSIVE TrimLeft(_)
TrimLeft(s) == IF s # <<>> /\ Head(s) = " " THEN TrimLeft(Tail(s)) ELSE s

RECURSIVE TrimRight(_)
TrimRight(s) ==
  IF s # <<>> /\ s[Len(s)] = " " THEN TrimRight(SubSeq(s, 1, Len(s) - 1)) ELSE s

TrimSpace(s) == TrimRight(TrimLeft(s))

\* strings.NewReplacer("+", " +", "-", " -").Replace
RECURSIVE ReplaceSigns(_)
ReplaceSigns(s) ==
  IF s = <<>> THEN <<>>
  ELSE IF Head(s) \in {"+", "-"} THEN <<" ", Head(s)>> \o ReplaceSigns(Tail(s))
  ELSE <<Head(s)>> \o ReplaceSigns(Tail(s))

(***************************************************************************)
(* Package strconv.  A result is [ok, n] or [ok, b].                       *)
(***************************************************************************)
DigitVal ==
  [c \in {"0", "1", "2", "3", "4", "5", "6", "7", "8", "9", "a", "b", "c", "d", "e", "f"} |->
     CASE c = "0" -> 0 [] c = "1" -> 1 [] c = "2" -> 2 [] c = "3" -> 3 [] c = "4" -> 4
       [] c = "5" -> 5 [] c = "6" -> 6 [] c = "7" -> 7 [] c = "8" -> 8 [] c = "9" -> 9
       [] c = "a" -> 10 [] c = "b" -> 11 [] c = "c" -> 12 [] c = "d" -> 13
       [] c = "e" -> 14 [] c = "f" -> 15]

RECURSIVE DigitsValue(_, _)
DigitsValue(ds, base) ==
  IF ds = <<>> THEN 0
  ELSE DigitsValue(SubSeq(ds, 1, Len(ds) - 1), base) * base + DigitVal[ds[Len(ds)]]

ValidDigits(ds, base) ==
  \A i \in 1..Len(ds) : ds[i] \in DOMAIN DigitVal /\ DigitVal[ds[i]] < base

\* strconv.ParseUint(s, 0, 64): base 10, or the base of a 0b, 0o, 0x prefix,
\* or base 8 after a bare leading 0.
ParseUint0(s) ==
  IF s = <<>> THEN [ok |-> FALSE, n |-> 0]
  ELSE LET prefixed == s[1] = "0" /\ Len(s) >= 3 /\ s[2] \in {"b", "o", "x"}
           base == IF s[1] # "0" THEN 10
                   ELSE IF ~prefixed THEN 8
                   ELSE IF s[2] = "b" THEN 2 ELSE IF s[2] = "o" THEN 8 ELSE 16
           ds   == IF s[1] # "0" THEN s
                   ELSE IF prefixed THEN SubSeq(s, 3, Len(s)) ELSE Tail(s)
       IN IF ValidDigits(ds, base) THEN [ok |-> TRUE, n |-> DigitsValue(ds, base)]
          ELSE [ok |-> FALSE, n |-> 0]

\* strconv.ParseInt(s, 0, 64)
ParseInt0(s) ==
  IF s = <<>> THEN [ok |-> FALSE, n |-> 0]
  ELSE LET neg  == s[1] = "-"
           rest == IF s[1] \in {"+", "-"} THEN Tail(s) ELSE s
           u    == ParseUint0(rest)
       IN IF ~u.ok THEN u ELSE [ok |-> TRUE, n |-> IF neg THEN 0 - u.n ELSE u.n]

\* strconv.Atoi: base 10 with an optional sign.
Atoi(s) ==
  IF s = <<>> THEN [ok |-> FALSE, n |-> 0]
  ELSE LET neg  == s[1] = "-"
           rest == IF s[1] \in {"+", "-"} THEN Tail(s) ELSE s
       IN IF rest # <<>> /\ ValidDigits(rest, 10)
          THEN [ok |-> TRUE, n |-> IF neg THEN 0 - DigitsValue(rest, 10) ELSE DigitsValue(rest, 10)]
          ELSE [ok |-> FALSE, n |-> 0]

\* strconv.ParseBool
ParseBool(s) ==
  IF s \in {<<"1">>, <<"t">>, <<"T">>, <<"T", "R", "U", "E">>, <<"t", "r", "u", "e">>,
            <<"T", "r", "u", "e">>}
  THEN [ok |-> TRUE, b |-> TRUE]
  ELSE IF s \in {<<"0">>, <<"f">>, <<"F">>, <<"F", "A", "L", "S", "E">>,
                 <<"f", "a", "l", "s", "e">>, <<"F", "a", "l", "s", "e">>}
  THEN [ok |-> TRUE, b |-> FALSE]
  ELSE [ok |-> FALSE, b |-> FALSE]

(***************************************************************************)
(* Types (reflect.Type) and values (reflect.Value) of the destination.     *)
(***************************************************************************)
TString == [k |-> "string"]
TInt == [k |-> "int"]
TBool == [k |-> "bool"]
\* A kind the switch of processField has no case for (complex128, chan, ...).
TOther == [k |-> "other"]
\* time.Time: a struct that implements encoding.TextUnmarshaler.
TTime == [k |-> "time"]
\* A named type with UnmarshalText (text) and/or UnmarshalBinary (binary);
\* under is the kind of its underlying type.
TCustom(text, binary, under) ==
  [k |-> "custom", text |-> text, binary |-> binary, under |-> under]
TPtr(t) == [k |-> "ptr", elem |-> t]
TSlice(t) == [k |-> "slice", elem |-> t]
TMap(kt, vt) == [k |-> "map", key |-> kt, elem |-> vt]
TStruct(fs) == [k |-> "struct", fields |-> fs]

\* A struct field declaration: its name, its `urlvalue` tag, its type and
\* whether reflect can set it (it is exported).
Fld(name, tag, typ) == [name |-> name, tag |-> tag, typ |-> typ, settable |-> TRUE]
Unexported(name, tag, typ) == [name |-> name, tag |-> tag, typ |-> typ, settable |-> FALSE]

\* A use of the type with the name name inside its own declaration.
TNamed(name) == [k |-> "named", name |-> name]

\* type Node struct { V int; Next *Node }
TNode == TStruct(<<Fld(<<"V">>, <<>>, TInt), Fld(<<"Next">>, <<>>, TPtr(TNamed("Node")))>>)

\* The declaration a type stands for.
Underlying(typ) == IF typ.k = "named" THEN TNode ELSE typ

\* reflect.Type.Kind
KindOf(typ) ==
  IF typ.k = "time" THEN "struct"
  ELSE IF typ.k = "custom" THEN typ.under
  ELSE IF typ.k = "named" THEN "struct"
  ELSE typ.k

\* reflect.Type.String, as far as the model tells types apart.
RECURSIVE TypeName(_)
TypeName(typ) ==
  IF typ.k \in {"ptr", "slice"} THEN <<typ.k>> \o TypeName(typ.elem) ELSE <<typ.k>>

VString(s) == [k |-> "string", s |-> s]
VInt(n) == [k |-> "int", n |-> n]
VBool(b) == [k |-> "bool", b |-> b]
VOther == [k |-> "other"]
\* A time.Time: the zero time, an absolute time read by time.Parse (at), or
\* time.Now() moved by AddDate(y, m, d).
VTime(ref, at, y, m, d) == [k |-> "time", ref |-> ref, at |-> at, y |-> y, m |-> m, d |-> d]
VTimeZero == VTime("zero", <<>>, 0, 0, 0)
VCustom(s) == [k |-> "custom", s |-> s]
VNilPtr == [k |-> "ptr", isNil |-> TRUE]
VPtr(e) == [k |-> "ptr", isNil |-> FALSE, elem |-> e]
VNilSlice == [k |-> "slice", isNil |-> TRUE]
VSlice(es) == [k |-> "slice", isNil |-> FALSE, elems |-> es]
VNilMap == [k |-> "map", isNil |-> TRUE]
VMap(m) == [k |-> "map", isNil |-> FALSE, m |-> m]
VStruct(fs) == [k |-> "struct", f |-> fs]

\* reflect.Zero
RECURSIVE Zero(_)
Zero(typ) ==
  CASE typ.k = "string" -> VString(<<>>)
    [] typ.k = "int" -> VInt(0)
    [] typ.k = "bool" -> VBool(FALSE)
    [] typ.k = "time" -> VTimeZero
    [] typ.k = "custom" -> VCustom(<<>>)
    [] typ.k = "ptr" -> VNilPtr
    [] typ.k = "slice" -> VNilSlice
    [] typ.k = "map" -> VNilMap
    [] typ.k = "struct" -> VStruct([i \in 1..Len(typ.fields) |-> Zero(typ.fields[i].typ)])
    [] typ.k = "named" -> Zero(Underlying(typ))
    [] OTHER -> VOther

\* reflect.Value.IsZero
RECURSIVE IsZero(_)
IsZero(val) ==
  CASE val.k = "string" -> val.s = <<>>
    [] val.k = "int" -> val.n = 0
    [] val.k = "bool" -> ~val.b
    [] val.k = "time" -> val.ref = "zero"
    [] val.k = "custom" -> val.s = <<>>
    [] val.k \in {"ptr", "slice", "map"} -> val.isNil
    [] val.k = "struct" -> \A i \in 1..Len(val.f) : IsZero(val.f[i])
    [] OTHER -> TRUE

\* A reflect.Value handle is a path from the destination struct: a positive
\* step selects a field (Value.Field), the step 0 follows a pointer (Value.Elem).
RECURSIVE GetAt(_, _)
GetAt(val, path) ==
  IF path = <<>> THEN val
  ELSE IF Head(path) = 0 THEN GetAt(val.elem, Tail(path))
  ELSE GetAt(val.f[Head(path)], Tail(path))

\* reflect.Value.Set through a handle.
RECURSIVE SetAt(_, _, _)
SetAt(val, path, new) ==
  IF path = <<>> THEN new
  ELSE IF Head(path) = 0 THEN VPtr(SetAt(val.elem, Tail(path), new))
  ELSE VStruct([val.f EXCEPT ![Head(path)] = SetAt(val.f[Head(path)], Tail(path), new)])

(***************************************************************************)
(* options.go: ParseOptions.                                               *)
(***************************************************************************)
\* ParseOptions{}: the delim pointer is nil.
NoParseOptions == [set |-> FALSE, s |-> <<>>]

\* A WithDelimiter that leaves a delimiter already set alone.
WithDelimiterKeepFirst(s, o) == IF o.set THEN o ELSE [set |-> TRUE, s |-> s]

\* The function WithDelimiter(s) returns, applied to o.
WithDelimiter(s, o) == [set |-> TRUE, s |-> s]

\* ParseOptions.Delim
Delim(o) == IF o.set /\ o.s # <<>> THEN o.s ELSE <<";">>

(***************************************************************************)
(* Errors.  An error of the coercion is [e, cite]; e = "nil" is no error.  *)
(***************************************************************************)
NoErr == [e |-> "nil", cite |-> <<>>]
Err(e, cite) == [e |-> e, cite |-> cite]
\* Not an error but a run-time panic: a method that writes through its
\* receiver, called on a nil pointer.
Panic == [e |-> "panic", cite |-> <<>>]

(***************************************************************************)
(* options.go: parseTime.                                                  *)
(***************************************************************************)
NowPrefix == <<"n", "o", "w">>

\* The switch of parseTime over layout: the layout constant of package time an
\* alias stands for (each constant a short text of its own here); any other
\* layout is used as it is.
LayoutConstant(layout) ==
  CASE layout \in {<<>>, <<"L", "a", "y", "o", "u", "t">>} -> <<"c", "0">>
    [] layout = <<"A", "N", "S", "I", "C">> -> <<"c", "1">>
    [] layout = <<"U", "n", "i", "x", "D", "a", "t", "e">> -> <<"c", "2">>
    [] layout = <<"R", "u", "b", "y", "D", "a", "t", "e">> -> <<"c", "3">>
    [] layout = <<"R", "F", "C", "8", "2", "2">> -> <<"c", "4">>
    [] layout = <<"R", "F", "C", "8", "2", "2", "Z">> -> <<"c", "5">>
    [] layout = <<"R", "F", "C", "8", "5", "0">> -> <<"c", "6">>
    [] layout = <<"R", "F", "C", "1", "1", "2", "3">> -> <<"c", "7">>
    [] layout = <<"R", "F", "C", "1", "1", "2", "3", "Z">> -> <<"c", "8">>
    [] layout = <<"R", "F", "C", "3", "3", "3", "9">> -> <<"c", "9">>
    [] layout = <<"R", "F", "C", "3", "3", "3", "9", "N", "a", "n", "o">> -> <<"c", "A">>
    [] layout = <<"K", "i", "t", "c", "h", "e", "n">> -> <<"c", "B">>
    [] OTHER -> layout

\* time.Parse(layout, value) of the standard library, as far as the model
\* goes: a value parses under a layout when it spells the layout's own text
\* (the reference time), and any other value is an error.
TimeParse(layout, value) ==
  IF value # <<>> /\ value = LayoutConstant(layout)
  THEN [err |-> NoErr, t |-> VTime("abs", value, 0, 0, 0)]
  ELSE [err |-> Err("time.Parse", value), t |-> VTimeZero]

\* An assignment that adds to the years, months or days set before.
SetPartAdding(acc, id, n) ==
  IF id = "y" THEN [acc EXCEPT !.y = acc.y + n]
  ELSE IF id = "m" THEN [acc EXCEPT !.m = acc.m + n]
  ELSE [acc EXCEPT !.d = acc.d + n]

\* `years = sign * v`, `months = sign * v`, `days = sign * v`
SetPart(acc, id, n) ==
  IF id = "y" THEN [acc EXCEPT !.y = n]
  ELSE IF id = "m" THEN [acc EXCEPT !.m = n]
  ELSE [acc EXCEPT !.d = n]

\* The loop over the parts of a "now" based value: each part sets the
\* years, months or days of acc, and the first bad part ends the loop.
RECURSIVE NowParts(_, _)
NowParts(parts, acc) ==
  IF parts = <<>> THEN [err |-> NoErr, t |-> VTime("now", <<>>, acc.y, acc.m, acc.d)]
  ELSE LET part == Head(parts)
           sign == IF part[1] = "+" THEN 1 ELSE -1
           num  == Atoi(SubSeq(part, 2, Len(part) - 1))
           id   == part[Len(part)]
       IN IF Len(part) < 3 THEN [err |-> Err("invalid now based format", part), t |-> VTimeZero]
          ELSE IF part[1] \notin {"+", "-"} THEN [err |-> Err("invalid sign", part), t |-> VTimeZero]
          ELSE IF ~num.ok THEN [err |-> Err("not a valid integer", part), t |-> VTimeZero]
          ELSE IF id \in {"y", "m", "d"}
          THEN NowParts(Tail(parts), SetPart(acc, id, sign * num.n))
          ELSE [err |-> Err("invalid identifier", part), t |-> VTimeZero]

parseTime(layout, value) ==
  IF value = NowPrefix THEN [err |-> NoErr, t |-> VTime("now", <<>>, 0, 0, 0)]
  ELSE IF HasPrefix(value, NowPrefix)
  THEN LET rest == TrimSpace(ReplaceSigns(TrimSpace(SubSeq(value, 4, Len(value)))))
       IN NowParts(Split(rest, <<" ">>), [y |-> 0, m |-> 0, d |-> 0])
  ELSE TimeParse(layout, value)

(***************************************************************************)
(* urlvalues.go: parseTag.                                                 *)
(***************************************************************************)
DefaultProp == <<"d", "e", "f", "a", "u", "l", "t">>
LayoutProp == <<"l", "a", "y", "o", "u", "t">>

\* fieldOptions{}
NoFieldOptions == [key |-> <<>>, defaultValue |-> <<>>, layout |-> <<>>]

\* One iteration of the loop of parseTag over tagParts, part i (0-based).
TagPart(tagPart, i, fOpts) ==
  LET vals == SplitN2(tagPart, <<":">>)
      tagProp == TrimSpace(vals[1])
      tagPropVal == TrimSpace(vals[2])
  IN IF Len(vals) = 1
     THEN [err |-> NoErr, opts |-> IF i = 0 THEN [fOpts EXCEPT !.key = tagProp] ELSE fOpts]
     ELSE IF tagPropVal = <<>>
     THEN [err |-> Err("tag missing a value", tagProp), opts |-> fOpts]
     ELSE IF tagProp = DefaultProp
     THEN [err |-> NoErr, opts |-> [fOpts EXCEPT !.defaultValue = tagPropVal]]
     ELSE IF tagProp = LayoutProp
     THEN [err |-> NoErr, opts |-> [fOpts EXCEPT !.layout = tagPropVal]]
     ELSE [err |-> NoErr, opts |-> fOpts]

RECURSIVE TagParts(_, _, _)
TagParts(tagParts, i, fOpts) ==
  IF i >= Len(tagParts) THEN [err |-> NoErr, opts |-> fOpts]
  ELSE LET r == TagPart(tagParts[i + 1], i, fOpts)
       IN IF r.err # NoErr THEN r ELSE TagParts(tagParts, i + 1, r.opts)

parseTag(tagStr) ==
  IF tagStr = <<>> THEN [err |-> NoErr, opts |-> NoFieldOptions]
  ELSE TagParts(Split(tagStr, <<",">>), 0, NoFieldOptions)

(***************************************************************************)
(* urlvalues.go: textUnmarshaler, binaryUnmarshaler, processField.         *)
(***************************************************************************)
\* The pointer to a value of type typ has the method UnmarshalText, or
\* UnmarshalBinary (time.Time has both).
PtrHasText(typ) == typ.k = "time" \/ (typ.k = "custom" /\ typ.text)
PtrHasBinary(typ) == typ.k = "time" \/ (typ.k = "custom" /\ typ.binary)

\* A textUnmarshaler that finds no type with UnmarshalText.
HasTextNever(typ) == FALSE

\* textUnmarshaler(field) # nil: interfaceFrom finds the method on the
\* field's own value when the field is such a pointer, and else on the
\* field's address.
HasText(typ) == PtrHasText(typ) \/ (typ.k = "ptr" /\ PtrHasText(typ.elem))

\* binaryUnmarshaler(field) # nil
HasBinary(typ) == PtrHasBinary(typ) \/ (typ.k = "ptr" /\ PtrHasBinary(typ.elem))

\* The call of the method found: on the address of the field, which then
\* holds new, or on the pointer the field is, which panics when it is nil.
Decode(typ, cur, new) ==
  IF typ.k # "ptr" THEN [err |-> NoErr, val |-> new]
  ELSE IF cur.isNil THEN [err |-> Panic, val |-> cur]
  ELSE [err |-> NoErr, val |-> VPtr(new)]

\* The UnmarshalText of the types of the tests: it stores "text_" and the text.
UnmarshalText(text) == VCustom(<<"t", "e", "x", "t", "_">> \o text)

\* The UnmarshalBinary of the types of the tests: it stores "data_" and the data.
UnmarshalBinary(data) == VCustom(<<"d", "a", "t", "a", "_">> \o data)

\* The first error of a sequence of results, NoErr when there is none.
FirstErr(rs) ==
  LET bad == {i \in 1..Len(rs) : rs[i].err # NoErr}
  IN IF bad = {} THEN NoErr ELSE rs[CHOOSE i \in bad : \A j \in bad : i <= j].err

\* A guard that never skips: the default is written over any value.
DefaultGuardOff(settingDefault, cur) == FALSE

\* A guard that forgets settingDefault: no value is written over a set field.
DefaultGuardAlways(settingDefault, cur) == ~IsZero(cur)

\* "We don't want a default value to override a proper setting."
DefaultGuard(settingDefault, cur) == settingDefault /\ ~IsZero(cur)

RECURSIVE processField(_, _, _, _, _, _)
RECURSIVE Builtin(_, _, _, _, _)
RECURSIVE MapPairs(_, _, _, _, _)

\* A test that takes a pair with several colons for a good one.
InvalidMapItemMissingColon(kvpair) == Len(kvpair) < 2

\* `len(kvpair) != 2`: the pair is an invalid map item.
InvalidMapItem(kvpair) == Len(kvpair) # 2

\* The loop of the reflect.Map case over pairs; mp is the map built so far.
MapPairs(pairs, typ, fOpts, pOpts, mp) ==
  IF pairs = <<>> THEN [err |-> NoErr, m |-> mp]
  ELSE LET pair == Head(pairs)
           kvpair == Split(pair, <<":">>)
           k == processField(FALSE, kvpair[1], typ.key, Zero(typ.key), fOpts, pOpts)
           v == processField(FALSE, kvpair[2], typ.elem, Zero(typ.elem), fOpts, pOpts)
       IN IF InvalidMapItem(kvpair) THEN [err |-> Err("invalid map item", pair), m |-> mp]
          ELSE IF k.err # NoErr THEN [err |-> k.err, m |-> mp]
          ELSE IF v.err # NoErr THEN [err |-> v.err, m |-> mp]
          ELSE MapPairs(Tail(pairs), typ, fOpts, pOpts, (k.val :> v.val) @@ mp)

\* The switch of processField over typ.Kind(); cur is the value of field.
Builtin(value, typ, cur, fOpts, pOpts) ==
  CASE KindOf(typ) = "string" -> [err |-> NoErr, val |-> VString(value)]
    [] KindOf(typ) = "int" ->
         LET r == ParseInt0(value)
         IN IF r.ok THEN [err |-> NoErr, val |-> VInt(r.n)]
            ELSE [err |-> Err("strconv.ParseInt", value), val |-> cur]
    [] KindOf(typ) = "bool" ->
         LET r == ParseBool(value)
         IN IF r.ok THEN [err |-> NoErr, val |-> VBool(r.b)]
            ELSE [err |-> Err("strconv.ParseBool", value), val |-> cur]
    [] KindOf(typ) = "slice" ->
         LET vals == Split(value, Delim(pOpts))
             rs == [i \in 1..Len(vals) |->
                      processField(FALSE, vals[i], typ.elem, Zero(typ.elem), fOpts, pOpts)]
         IN IF FirstErr(rs) # NoErr THEN [err |-> FirstErr(rs), val |-> cur]
            ELSE [err |-> NoErr, val |-> VSlice([i \in 1..Len(vals) |-> rs[i].val])]
    [] KindOf(typ) = "map" ->
         LET r == IF TrimSpace(value) # <<>>
                  THEN MapPairs(Split(value, Delim(pOpts)), typ, fOpts, pOpts, <<>>)
                  ELSE [err |-> NoErr, m |-> <<>>]
         IN IF r.err # NoErr THEN [err |-> r.err, val |-> cur]
            ELSE [err |-> NoErr, val |-> VMap(r.m)]
    [] OTHER -> [err |-> NoErr, val |-> cur]

\* processField: the error it returns and the value field holds afterwards.
processField(settingDefault, value, typ, cur, fOpts, pOpts) ==
  IF typ.k = "time"
  THEN LET r == parseTime(fOpts.layout, value)
       IN IF r.err # NoErr THEN [err |-> r.err, val |-> cur] ELSE [err |-> NoErr, val |-> r.t]
  ELSE IF HasText(typ) THEN Decode(typ, cur, UnmarshalText(value))
  ELSE IF HasBinary(typ) THEN Decode(typ, cur, UnmarshalBinary(value))
  ELSE IF typ.k = "ptr"
  THEN LET elem == IF cur.isNil THEN Zero(typ.elem) ELSE cur.elem
           r == Builtin(value, typ.elem, elem, fOpts, pOpts)
       IN IF DefaultGuard(settingDefault, elem) THEN [err |-> NoErr, val |-> VPtr(elem)]
          ELSE [err |-> r.err, val |-> VPtr(r.val)]
  ELSE IF DefaultGuard(settingDefault, cur) THEN [err |-> NoErr, val |-> cur]
  ELSE Builtin(value, typ, cur, fOpts, pOpts)

(***************************************************************************)
(* urlvalues.go: extractFields.                                            *)
(***************************************************************************)
ErrInvalidStruct == [type |-> "ErrInvalidStruct"]
ErrNoFields == [type |-> "NoFields"]
ErrNil == [type |-> "nil"]
\* Unmarshal did not return: a panic went through it.
Panicked == [type |-> "panic"]
\* Unmarshal did not return: the stack overflowed and the program ended.
StackOverflow == [type |-> "stack overflow"]
\* fmt.Errorf("urlvalues: parsing tags for field %s: %w", fieldName, err)
TagError(fieldName, e) == [type |-> "TagError", fieldName |-> fieldName, err |-> e]
\* fmt.Errorf("urlvalues: %w", err)
Wrapped(e) == [type |-> "Wrapped", inner |-> e]

\* "Drill down through pointers until we bottom out at type or nil": the
\* type and the handle reached, and the destination with the nil pointers to
\* structs on the way allocated.
RECURSIVE Drill(_, _, _)
Drill(typ, m, path) ==
  IF typ.k # "ptr" THEN [typ |-> typ, path |-> path, mem |-> m]
  ELSE IF ~GetAt(m, path).isNil THEN Drill(Underlying(typ.elem), m, path \o <<0>>)
  ELSE IF KindOf(typ.elem) # "struct" THEN [typ |-> typ, path |-> path, mem |-> m]
  ELSE Drill(Underlying(typ.elem), SetAt(m, path, VPtr(Zero(typ.elem))), path \o <<0>>)

\* A test of the tag that ignores no field.
IsIgnoredTagNever(fieldTags) == FALSE

\* `fieldTags == "-"`: the field is ignored.
IsIgnoredTag(fieldTags) == fieldTags = <<"-">>

\* An append that puts the fields of the nested struct first.
AppendInnerFirst(acc, innerFields) == innerFields \o acc

\* fields = append(fields, innerFields...)
AppendInner(acc, innerFields) == acc \o innerFields

\* The loop of extractFields over the fields i.. of the struct of type styp
\* at path; acc is the slice fields so far, and depth the number of calls
\* of extractFields on the stack: a call deeper than the stack has room for
\* ends the program ("goroutine stack exceeds ... limit"), no error is
\* returned.
RECURSIVE ExtractLoop(_, _, _, _, _, _)
ExtractLoop(styp, m, path, i, acc, depth) ==
  IF depth > MaxDepth THEN [err |-> StackOverflow, fields |-> <<>>, mem |-> m]
  ELSE IF i > Len(styp.fields) THEN [err |-> ErrNil, fields |-> acc, mem |-> m]
  ELSE LET sf == styp.fields[i]
           t == parseTag(sf.tag)
           d == Drill(sf.typ, m, path \o <<i>>)
           inner == ExtractLoop(d.typ, d.mem, d.path, 1, <<>>, depth + 1)
       IN IF ~sf.settable \/ IsIgnoredTag(sf.tag)
          THEN ExtractLoop(styp, m, path, i + 1, acc, depth)
          ELSE IF t.err # NoErr
          THEN [err |-> TagError(sf.name, t.err), fields |-> <<>>, mem |-> m]
          ELSE IF KindOf(d.typ) = "struct" /\ ~HasText(d.typ) /\ ~HasBinary(d.typ)
          THEN IF inner.err = StackOverflow
               THEN [err |-> StackOverflow, fields |-> <<>>, mem |-> inner.mem]
               ELSE IF inner.err # ErrNil
               THEN [err |-> Wrapped(inner.err), fields |-> <<>>, mem |-> inner.mem]
               ELSE ExtractLoop(styp, inner.mem, path, i + 1, AppendInner(acc, inner.fields),
                                depth)
          ELSE ExtractLoop(styp, d.mem, path, i + 1,
                           Append(acc, [name |-> sf.name, path |-> d.path, typ |-> d.typ,
                                        options |-> t.opts]), depth)

\* extractFields(target), target pointing to m when it is a non-nil pointer.
extractFields(target, m) ==
  IF target.kind # "ptr" THEN [err |-> ErrInvalidStruct, fields |-> <<>>, mem |-> m]
  ELSE IF target.isNil \/ KindOf(target.typ) # "struct"
  THEN [err |-> ErrInvalidStruct, fields |-> <<>>, mem |-> m]
  ELSE ExtractLoop(target.typ, m, <<>>, 1, <<>>, 1)

(***************************************************************************)
(* urlvalues.go: the errors of Unmarshal.                                  *)
(***************************************************************************)
FieldError(fieldName, typeName, val, e) ==
  [type |-> "FieldError", fieldName |-> fieldName, typeName |-> typeName,
   value |-> val, err |-> e]

ParseError(fieldName, k, fe) ==
  [type |-> "ParseError", FieldName |-> fieldName, Key |-> k, fe |-> fe]

\* ParseError.Unwrap, and the Unwrap of the errors fmt.Errorf makes with %w;
\* FieldError has no Unwrap method.
HasUnwrap(e) == e.type \in {"ParseError", "Wrapped", "TagError"}
Unwrap(e) ==
  IF e.type = "ParseError" THEN e.fe
  ELSE IF e.type = "Wrapped" THEN e.inner
  ELSE [type |-> "cause"]

\* errors.As(e, &target) for a target of the named error type.
RECURSIVE ErrorsAs(_, _)
ErrorsAs(e, type) ==
  e.type = type \/ (HasUnwrap(e) /\ ErrorsAs(Unwrap(e), type))

(***************************************************************************)
(* The state of one call Unmarshal(data, v, setParseOpts...).              *)
(***************************************************************************)
VARIABLES
  data,          \* the url.Values: [isNil, m], m from keys to value lists
  v,             \* the target: what v is, and the type it points to
  setParseOpts,  \* the delimiters of the WithDelimiter options passed
  mem,           \* the value v points to
  mem0,          \* the value v pointed to when the call began
  pOpts,         \* the ParseOptions
  nOpt,          \* how many of setParseOpts have been applied
  fields,        \* the result of extractFields
  idx,           \* the position of the loop over fields (1-based)
  key,           \* the local variable key of the loop body
  value,         \* the local variable value of the loop body
  err,           \* what Unmarshal returned; "none" while it runs
  pc             \* where the call is

vars == <<data, v, setParseOpts, mem, mem0, pOpts, nOpt, fields, idx, key, value, err, pc>>

(***************************************************************************)
(* The calls the model makes: destination types, destinations and inputs.  *)
(***************************************************************************)
PtrTo(typ) == [kind |-> "ptr", isNil |-> FALSE, typ |-> typ]
NilPtrTo(typ) == [kind |-> "ptr", isNil |-> TRUE, typ |-> typ]
ValueOf(typ) == [kind |-> "value", isNil |-> FALSE, typ |-> typ]
UntypedNil == [kind |-> "nil", isNil |-> TRUE, typ |-> TOther]

\* TestTextUnmarshaler and TestBinaryUnmarshaler of the tests.
TTestText == TCustom(TRUE, FALSE, "string")
TTestBinary == TCustom(FALSE, TRUE, "slice")

\* A type with both methods, and a struct type with UnmarshalBinary.
TTextAndBinary == TCustom(TRUE, TRUE, "string")
TBinaryStruct == TCustom(FALSE, TRUE, "struct")

\* The delimiters passed to WithDelimiter: the empty string, one character,
\* and two characters.
Delims == {<<>>, <<"|">>, <<"a", "a">>}

OptLists(n) == UNION {[1..l -> Delims] : l \in 0..n}

\* struct { V int `urlvalue:"k,default:7"` }
TIntDefault == TStruct(<<Fld(<<"V">>, <<"k", ",">> \o DefaultProp \o <<":", "7">>, TInt)>>)

\* struct { V int `urlvalue:",default:x"` }
TIntBadDefault == TStruct(<<Fld(<<"V">>, <<",">> \o DefaultProp \o <<":", "x">>, TInt)>>)

\* struct { B bool `urlvalue:"b,default:t"` }
TBoolDefault == TStruct(<<Fld(<<"B">>, <<"b", ",">> \o DefaultProp \o <<":", "t">>, TBool)>>)

\* struct { S string `urlvalue:"s,default:d"`; R string }
TStrings == TStruct(<<Fld(<<"S">>, <<"s", ",">> \o DefaultProp \o <<":", "d">>, TString),
                      Fld(<<"R">>, <<>>, TString)>>)

\* struct { P *string; Q *string `urlvalue:",default:o"` }
TPointers == TStruct(<<Fld(<<"P">>, <<>>, TPtr(TString)),
                       Fld(<<"Q">>, <<",">> \o DefaultProp \o <<":", "o">>, TPtr(TString))>>)

\* struct { X string `urlvalue:"-"`; N string `urlvalue:"-,"` }
TSkip == TStruct(<<Fld(<<"X">>, <<"-">>, TString), Fld(<<"N">>, <<"-", ",">>, TString)>>)

\* struct { L []string `urlvalue:"l"` }
TSlices == TStruct(<<Fld(<<"L">>, <<"l">>, TSlice(TString))>>)

\* struct { L []string `urlvalue:"l,default:p;q|r"` }
TSliceDefault ==
  TStruct(<<Fld(<<"L">>, <<"l", ",">> \o DefaultProp \o <<":", "p", ";", "q", "|", "r">>,
                TSlice(TString))>>)

\* struct { N []int `urlvalue:"n"` }
TIntSlice == TStruct(<<Fld(<<"N">>, <<"n">>, TSlice(TInt))>>)

\* struct { M map[string]int `urlvalue:"m,default:a:1"` }
TMaps == TStruct(<<Fld(<<"M">>, <<"m", ",">> \o DefaultProp \o <<":", "a", ":", "1">>,
                       TMap(TString, TInt))>>)

\* struct { S map[string]string `urlvalue:"s"` }
TStringMap == TStruct(<<Fld(<<"S">>, <<"s">>, TMap(TString, TString))>>)

\* struct { T time.Time `urlvalue:",default:now-1y"` }
TTimes == TStruct(<<Fld(<<"T">>, <<",">> \o DefaultProp \o <<":">> \o NowPrefix \o <<"-", "1", "y">>,
                        TTime)>>)

\* struct { U TestTextUnmarshaler `urlvalue:",default:x"`
\*          W TestBinaryUnmarshaler `urlvalue:",default:y"` }
TCustoms == TStruct(<<Fld(<<"U">>, <<",">> \o DefaultProp \o <<":", "x">>, TTestText),
                      Fld(<<"W">>, <<",">> \o DefaultProp \o <<":", "y">>, TTestBinary)>>)

\* struct { B TextAndBinary `urlvalue:"b,default:x"`; P *TestTextUnmarshaler
\*          Q *BinaryStruct; R BinaryStruct }
TDecoders ==
  TStruct(<<Fld(<<"B">>, <<"b", ",">> \o DefaultProp \o <<":", "x">>, TTextAndBinary),
            Fld(<<"P">>, <<>>, TPtr(TTestText)),
            Fld(<<"Q">>, <<>>, TPtr(TBinaryStruct)),
            Fld(<<"R">>, <<>>, TBinaryStruct)>>)

\* struct { A struct { X int; B *struct { Y int }; Z int }; W int }
TDeep ==
  TStruct(<<Fld(<<"A">>, <<>>,
                TStruct(<<Fld(<<"X">>, <<>>, TInt),
                          Fld(<<"B">>, <<>>, TPtr(TStruct(<<Fld(<<"Y">>, <<>>, TInt)>>))),
                          Fld(<<"Z">>, <<>>, TInt)>>)),
            Fld(<<"W">>, <<>>, TInt)>>)

\* struct { A int `urlvalue:"a,default:1"`; B int `urlvalue:"b,default:y"`
\*          C int `urlvalue:"c,default:3"` }
TThree ==
  TStruct(<<Fld(<<"A">>, <<"a", ",">> \o DefaultProp \o <<":", "1">>, TInt),
            Fld(<<"B">>, <<"b", ",">> \o DefaultProp \o <<":", "y">>, TInt),
            Fld(<<"C">>, <<"c", ",">> \o DefaultProp \o <<":", "3">>, TInt)>>)

\* struct { A struct { I int `urlvalue:"i"` }; hidden int
\*          P *struct { C string `urlvalue:"c,default:z"` } }
TNested ==
  TStruct(<<Fld(<<"A">>, <<>>, TStruct(<<Fld(<<"I">>, <<"i">>, TInt)>>)),
            Unexported(<<"h">>, <<>>, TInt),
            Fld(<<"P">>, <<>>,
                TPtr(TStruct(<<Fld(<<"C">>, <<"c", ",">> \o DefaultProp \o <<":", "z">>,
                                   TString)>>)))>>)

\* struct { A int `urlvalue:","`; B int `urlvalue:" "`; C int `urlvalue:"default:5"`
\*          D int `urlvalue:" k "`; E int `urlvalue:"layout:x,e"`; F complex128 }
TKeys ==
  TStruct(<<Fld(<<"A">>, <<",">>, TInt), Fld(<<"B">>, <<" ">>, TInt),
            Fld(<<"C">>, DefaultProp \o <<":", "5">>, TInt),
            Fld(<<"D">>, <<" ", "k", " ">>, TInt),
            Fld(<<"E">>, LayoutProp \o <<":", "x", ",", "e">>, TInt),
            Fld(<<"F">>, <<>>, TOther)>>)

\* struct { V int `urlvalue:"v,default: "` }
TBadTag == TStruct(<<Fld(<<"V">>, <<"v", ",">> \o DefaultProp \o <<":", " ">>, TInt)>>)

\* struct { P *struct { V int `urlvalue:"layout:"` } }
TBadInnerTag ==
  TStruct(<<Fld(<<"P">>, <<>>, TPtr(TStruct(<<Fld(<<"V">>, LayoutProp \o <<":">>, TInt)>>)))>>)

\* struct{}
TEmpty == TStruct(<<>>)

\* struct { X string `urlvalue:"-"`; h int; A struct{}; P *struct{ Y int `urlvalue:"-"` } }
TNoFields ==
  TStruct(<<Fld(<<"X">>, <<"-">>, TString), Unexported(<<"h">>, <<>>, TInt),
            Fld(<<"A">>, <<>>, TStruct(<<>>)),
            Fld(<<"P">>, <<>>, TPtr(TStruct(<<Fld(<<"Y">>, <<"-">>, TInt)>>)))>>)

\* A call: the target v, the destinations it may point to, the keys and the
\* values the input draws from, and the option lists.
Call(target, mems, keys, strs, opts) ==
  [v |-> target, mems |-> mems, keys |-> keys, strs |-> strs, opts |-> opts]

Calls ==
  { Call(PtrTo(TIntDefault), {Zero(TIntDefault), VStruct(<<VInt(3)>>)},
         {<<"k">>, <<"V">>}, {<<"0">>, <<"5">>, <<"x">>}, {<<>>}),
    Call(PtrTo(TIntBadDefault), {Zero(TIntBadDefault), VStruct(<<VInt(3)>>)},
         {<<"V">>}, {<<"5">>, <<"x">>}, {<<>>}),
    Call(PtrTo(TBoolDefault), {Zero(TBoolDefault), VStruct(<<VBool(TRUE)>>)},
         {<<"b">>}, {<<"f">>, <<"t">>, <<"x">>}, {<<>>}),
    Call(PtrTo(TStrings),
         {Zero(TStrings), VStruct(<<VString(<<"u">>), VString(<<"u">>)>>)},
         {<<"s">>, <<"R">>}, {<<>>, <<"a">>}, OptLists(1)),
    Call(PtrTo(TPointers),
         {Zero(TPointers), VStruct(<<VPtr(VString(<<"u">>)), VPtr(VString(<<"u">>))>>),
          VStruct(<<VPtr(VString(<<>>)), VPtr(VString(<<>>))>>)},
         {<<"P">>, <<"Q">>}, {<<>>, <<"w">>}, {<<>>}),
    Call(PtrTo(TSkip), {Zero(TSkip), VStruct(<<VString(<<"u">>), VString(<<>>)>>)},
         {<<"X">>, <<"-">>, <<"N">>}, {<<"w">>}, {<<>>}),
    Call(PtrTo(TSlices), {Zero(TSlices)},
         {<<"l">>}, {<<>>, <<"a">>, <<"x", ";", "y">>, <<"x", "|", "y">>}, OptLists(MaxOpts)),
    Call(PtrTo(TSliceDefault),
         {Zero(TSliceDefault), VStruct(<<VSlice(<<>>)>>), VStruct(<<VSlice(<<VString(<<"u">>)>>)>>)},
         {<<"l">>}, {<<"a">>}, OptLists(MaxOpts)),
    Call(PtrTo(TIntSlice), {Zero(TIntSlice)},
         {<<"n">>}, {<<"1">>, <<"x">>, <<"1", ";", "2">>}, OptLists(1)),
    Call(PtrTo(TMaps), {Zero(TMaps), VStruct(<<VMap(<<>>)>>)},
         {<<"m">>}, {<<>>, <<"a", ":", "2">>, <<"b">>, <<"b", ":", "x">>}, OptLists(1)),
    Call(PtrTo(TStringMap),
         {Zero(TStringMap), VStruct(<<VMap(VString(<<"u">>) :> VString(<<"w">>))>>)},
         {<<"s">>},
         {<<" ">>, <<"a", ":", "b">>, <<":", "b">>, <<"a", ":">>, <<"a">>,
          <<"a", ":", "b", ":", "c">>},
         OptLists(1)),
    Call(PtrTo(TTimes), {Zero(TTimes), VStruct(<<VTime("abs", <<"c", "0">>, 0, 0, 0)>>)},
         {<<"T">>}, {NowPrefix \o <<"+", "2", "d">>, <<"c", "0">>, <<"z">>}, {<<>>}),
    Call(PtrTo(TCustoms),
         {Zero(TCustoms), VStruct(<<VCustom(<<"u">>), VCustom(<<"u">>)>>)},
         {<<"U">>, <<"W">>}, {<<"a">>}, {<<>>}),
    Call(PtrTo(TDecoders),
         {Zero(TDecoders),
          VStruct(<<VCustom(<<"u">>), VPtr(VCustom(<<"u">>)), VPtr(VCustom(<<>>)),
                    VCustom(<<"u">>)>>)},
         {<<"b">>, <<"P">>, <<"Q">>, <<"R">>}, {<<"a">>}, {<<>>}),
    Call(PtrTo(TThree), {Zero(TThree), VStruct(<<VInt(0), VInt(9), VInt(0)>>)},
         {<<"a">>, <<"b">>, <<"c">>}, {<<"5">>, <<"x">>}, {<<>>}),
    Call(PtrTo(TDeep), {Zero(TDeep)}, {<<"X">>, <<"Y">>, <<"W">>}, {<<"1">>, <<"x">>}, {<<>>}),
    Call(PtrTo(TNode), {Zero(TNode), VStruct(<<VInt(3), VPtr(Zero(TNode))>>)},
         {<<"V">>}, {<<"1">>}, {<<>>}),
    Call(PtrTo(TNested),
         {Zero(TNested),
          VStruct(<<VStruct(<<VInt(3)>>), VInt(1), VPtr(VStruct(<<VString(<<"u">>)>>))>>)},
         {<<"i">>, <<"c">>, <<"A">>}, {<<"1">>, <<"x">>}, {<<>>}),
    Call(PtrTo(TKeys), {Zero(TKeys)},
         {<<"A">>, <<"k">>, <<"E">>}, {<<"1">>}, {<<>>}),
    Call(PtrTo(TBadTag), {Zero(TBadTag)}, {<<"v">>}, {<<"1">>}, {<<>>}),
    Call(PtrTo(TBadInnerTag), {Zero(TBadInnerTag)}, {<<"V">>}, {<<"1">>}, {<<>>}),
    Call(PtrTo(TEmpty), {Zero(TEmpty)}, {<<"X">>}, {<<"1">>}, {<<>>}),
    Call(PtrTo(TNoFields), {Zero(TNoFields)}, {<<"X">>, <<"Y">>}, {<<"1">>}, {<<>>}),
    Call(UntypedNil, {VOther}, {<<"V">>}, {<<"1">>}, {<<>>}),
    Call(NilPtrTo(TIntDefault), {VOther}, {<<"V">>}, {<<"1">>}, {<<>>}),
    Call(ValueOf(TString), {VString(<<>>), VString(<<"u">>)}, {<<"V">>}, {<<"1">>}, {<<>>}),
    Call(ValueOf(TIntDefault), {Zero(TIntDefault)}, {<<"V">>, <<"k">>}, {<<"1">>}, {<<>>}),
    Call(PtrTo(TInt), {VInt(0)}, {<<"V">>}, {<<"1">>}, {<<>>}),
    Call(PtrTo(TPtr(TIntDefault)), {VPtr(Zero(TIntDefault))}, {<<"V">>, <<"k">>}, {<<"1">>}, {<<>>}) }

ValueLists(strs) == UNION {[1..n -> strs] : n \in 0..MaxValues}

\* The url.Values over keys: nil, or a map from some of the keys to lists.
DataOver(keys, strs) ==
  {[isNil |-> TRUE, m |-> <<>>]} \cup
  {[isNil |-> FALSE, m |-> f] : f \in UNION {[K -> ValueLists(strs)] : K \in SUBSET keys}}

(***************************************************************************)
(* urlvalues.go: Unmarshal, one action per step.                           *)
(***************************************************************************)
Init ==
  \E c \in Calls :
    /\ v = c.v
    /\ mem \in c.mems
    /\ mem0 = mem
    /\ data \in DataOver(c.keys, c.strs)
    /\ setParseOpts \in c.opts
    /\ pOpts = NoParseOptions
    /\ nOpt = 0
    /\ fields = <<>>
    /\ idx = 0
    /\ key = <<>>
    /\ value = <<>>
    /\ err = [type |-> "none"]
    /\ pc = "opts"

\* for _, f := range setParseOpts { f(pOpts) }
ApplyOption ==
  /\ pc = "opts"
  /\ nOpt < Len(setParseOpts)
  /\ pOpts' = WithDelimiter(setParseOpts[nOpt + 1], pOpts)
  /\ nOpt' = nOpt + 1
  /\ UNCHANGED <<data, v, setParseOpts, mem, mem0, fields, idx, key, value, err, pc>>

\* fields, err := extractFields(v), and the two returns after it.
ExtractFields ==
  /\ pc = "opts"
  /\ nOpt = Len(setParseOpts)
  /\ LET r == extractFields(v, mem)
     IN /\ mem' = r.mem
        /\ IF r.err = StackOverflow
           THEN /\ err' = r.err /\ pc' = "overflow" /\ UNCHANGED <<fields, idx>>
           ELSE IF r.err # ErrNil
           THEN /\ err' = r.err /\ pc' = "done" /\ UNCHANGED <<fields, idx>>
           ELSE IF Len(r.fields) = 0
           THEN /\ err' = ErrNoFields /\ pc' = "done" /\ UNCHANGED <<fields, idx>>
           ELSE /\ fields' = r.fields /\ idx' = 1 /\ pc' = "loop" /\ UNCHANGED err
  /\ UNCHANGED <<data, v, setParseOpts, mem0, pOpts, nOpt, key, value>>

\* A default failure reported as an input failure would be.
DefaultErrorAsParseError(field, e) ==
  ParseError(field.name, field.name,
             FieldError(field.name, TypeName(field.typ), field.options.defaultValue, e))

\* The error returned when processField fails on the default value.
DefaultError(field, e) ==
  FieldError(field.name, TypeName(field.typ), field.options.defaultValue, e)

\* The error returned when processField fails on the value read under k.
InputError(field, k, val, e) ==
  ParseError(field.name, k, FieldError(field.name, TypeName(field.typ), val, e))

\* A write that goes to a copy of the destination made when the loop over
\* the fields began, not to the destination as it is.
StoreInCopy(m, path, new) == SetAt(extractFields(v, mem0).mem, path, new)

\* field.Set, field.SetString, ...: the write through the handle of a field.
Store(m, path, new) == SetAt(m, path, new)

\* A test of the error that lets every coercion pass.
FailedNever(e) == FALSE

\* `err != nil` after processField: the coercion failed.
Failed(e) == e # NoErr

\* "Set any default value into the struct for this field."
FieldDefault ==
  /\ pc = "loop"
  /\ idx <= Len(fields)
  /\ LET field == fields[idx]
         r == processField(TRUE, field.options.defaultValue, field.typ,
                           GetAt(mem, field.path), field.options, pOpts)
     IN IF field.options.defaultValue = <<>>
        THEN /\ pc' = "input" /\ UNCHANGED <<mem, err>>
        ELSE /\ mem' = Store(mem, field.path, r.val)
             /\ IF Failed(r.err)
                THEN /\ err' = IF r.err = Panic THEN Panicked ELSE DefaultError(field, r.err)
                     /\ pc' = "done"
                ELSE /\ pc' = "input" /\ UNCHANGED err
  /\ UNCHANGED <<data, v, setParseOpts, mem0, pOpts, nOpt, fields, idx, key, value>>

\* A key without the default to the field name.
LookupKeyNoFallback(field) == field.options.key

\* A value that is the first of the values only.
JoinValuesFirstOnly(values, o) == values[1]

\* value := values[0], or the values joined when there are several.
JoinValues(values, o) == IF Len(values) > 1 THEN Join(values, Delim(o)) ELSE values[1]

\* The key of the field: options.key, or the field name.
LookupKey(field) == IF field.options.key = <<>> THEN field.name ELSE field.options.key

\* The rest of the loop body: the lookup in data, the join, processField.
FieldInput ==
  /\ pc = "input"
  /\ LET field == fields[idx]
         k == LookupKey(field)
         ok == ~data.isNil /\ k \in DOMAIN data.m
         values == data.m[k]
         joined == JoinValues(values, pOpts)
         r == processField(FALSE, joined, field.typ, GetAt(mem, field.path),
                           field.options, pOpts)
     IN /\ key' = k
        /\ IF ~ok \/ Len(values) = 0
           THEN /\ idx' = idx + 1 /\ pc' = "loop" /\ UNCHANGED <<mem, err, value>>
           ELSE /\ value' = joined
                /\ mem' = Store(mem, field.path, r.val)
                /\ IF Failed(r.err)
                   THEN /\ err' = IF r.err = Panic THEN Panicked
                                   ELSE InputError(field, k, joined, r.err)
                        /\ pc' = "done"
                        /\ UNCHANGED idx
                   ELSE /\ idx' = idx + 1 /\ pc' = "loop" /\ UNCHANGED err
  /\ UNCHANGED <<data, v, setParseOpts, mem0, pOpts, nOpt, fields>>

\* return nil
Return ==
  /\ pc = "loop"
  /\ idx > Len(fields)
  /\ err' = ErrNil
  /\ pc' = "done"
  /\ UNCHANGED <<data, v, setParseOpts, mem, mem0, pOpts, nOpt, fields, idx, key, value>>

\* The body of the loop of Unmarshal for the descriptor field, as a function
\* of the destination and of the error so far, st; after an error it does
\* nothing, as the loop has been left.
LoopBody(st, field) ==
  LET o == field.options
      d == processField(TRUE, o.defaultValue, field.typ, GetAt(st.mem, field.path), o, pOpts)
      m1 == IF o.defaultValue = <<>> THEN st.mem ELSE Store(st.mem, field.path, d.val)
      k == LookupKey(field)
      ok == ~data.isNil /\ k \in DOMAIN data.m
      joined == JoinValues(data.m[k], pOpts)
      r == processField(FALSE, joined, field.typ, GetAt(m1, field.path), o, pOpts)
  IN IF st.err # ErrNil THEN st
     ELSE IF o.defaultValue # <<>> /\ Failed(d.err)
     THEN [mem |-> m1, err |-> IF d.err = Panic THEN Panicked ELSE DefaultError(field, d.err)]
     ELSE IF ~ok \/ Len(data.m[k]) = 0 THEN [mem |-> m1, err |-> ErrNil]
     ELSE [mem |-> Store(m1, field.path, r.val),
           err |-> IF ~Failed(r.err) THEN ErrNil
                   ELSE IF r.err = Panic THEN Panicked
                   ELSE InputError(field, k, joined, r.err)]

\* The loop of Unmarshal over the descriptors fs.
RECURSIVE Loop(_, _)
Loop(st, fs) == IF fs = <<>> THEN st ELSE Loop(LoopBody(st, Head(fs)), Tail(fs))

Next == ApplyOption \/ ExtractFields \/ FieldDefault \/ FieldInput \/ Return

Spec == Init /\ [][Next]_vars

(***************************************************************************)
(* options.go: parseTime on its own, called as processField calls it for   *)
(* a field of type time.Time with the value and the layout of the field.   *)
(***************************************************************************)
\* The parts a value is made of: a sign, digits and y, m or d, and some
\* that are not of this form.
GoodParts ==
  {<<sg>> \o n \o <<id>> : sg \in {"+", "-"}, n \in {<<"1">>, <<"1", "2">>},
                            id \in {"y", "m", "d"}}
BadParts == {<<"+", "y">>, <<"+", "1", "h">>, <<"-", "x", "d">>}

RECURSIVE Concat(_)
Concat(ss) == IF ss = <<>> THEN <<>> ELSE Head(ss) \o Concat(Tail(ss))

\* "now" followed by up to MaxParts parts, "now" followed by blanks, and
\* values that do not begin with "now".
TimeValues ==
  {NowPrefix \o Concat(ps) : ps \in UNION {[1..n -> GoodParts \cup BadParts] : n \in 0..MaxParts}}
  \cup {NowPrefix \o <<" ">>, NowPrefix \o <<" ", "+", "1", "y", " ", "-", "1", "d">>,
        <<"c", "0">>, <<"c", "9">>, <<"z">>, <<>>}

Layouts == {<<>>, <<"R", "F", "C", "3", "3", "3", "9">>}

InitTime ==
  /\ v = PtrTo(TTimes)
  /\ mem = Zero(TTimes)
  /\ mem0 = mem
  /\ data = [isNil |-> TRUE, m |-> <<>>]
  /\ setParseOpts = <<>>
  /\ pOpts = NoParseOptions
  /\ nOpt = 0
  /\ \E layout \in Layouts :
       fields = <<[name |-> <<"T">>, path |-> <<1>>, typ |-> TTime,
                   options |-> [NoFieldOptions EXCEPT !.layout = layout]]>>
  /\ idx = 1
  /\ key = <<"T">>
  /\ value \in TimeValues
  /\ err = [type |-> "none"]
  /\ pc = "parseTime"

\* tim, err := parseTime(fOpts.layout, value), and field.Set(tim) when err
\* is nil.
ParseTime ==
  /\ pc = "parseTime"
  /\ LET r == parseTime(fields[idx].options.layout, value)
     IN /\ mem' = IF r.err = NoErr THEN SetAt(mem, fields[idx].path, r.t) ELSE mem
        /\ err' = IF r.err = NoErr THEN ErrNil ELSE [type |-> "parseTime", err |-> r.err]
  /\ pc' = "done"
  /\ UNCHANGED <<data, v, setParseOpts, mem0, pOpts, nOpt, fields, idx, key, value>>

NextTime == ParseTime

SpecTime == InitTime /\ [][NextTime]_vars

(***************************************************************************)
(* What the properties below speak of.                                     *)
(***************************************************************************)
Done == pc = "done"
Succeeded == pc = "done" /\ err = ErrNil
ValidTarget == v.kind = "ptr" /\ ~v.isNil /\ KindOf(v.typ) = "struct"

\* The value of descriptor f when the call began (a field of a struct that
\* the flattening allocated began as the zero value) and its value now.
Before(f) == GetAt(extractFields(v, mem0).mem, f.path)
After(f) == GetAt(mem, f.path)

HasDefault(f) == f.options.defaultValue # <<>>
KeyOf(f) == IF f.options.key # <<>> THEN f.options.key ELSE f.name
HasInput(f) == ~data.isNil /\ KeyOf(f) \in DOMAIN data.m /\ Len(data.m[KeyOf(f)]) > 0

\* The delimiter the options passed ask for.
ExpectedDelim(opts) ==
  IF opts = <<>> \/ opts[Len(opts)] = <<>> THEN <<";">> ELSE opts[Len(opts)]

\* The text read for f: its values joined by the delimiter.
InputText(f) == Join(data.m[KeyOf(f)], ExpectedDelim(setParseOpts))

\* The coercion of text s to the type of f, and to the element type of f.
Coerce(f, s) == processField(FALSE, s, f.typ, Zero(f.typ), f.options, pOpts)
ElemCoerce(f, s) == processField(FALSE, s, f.typ.elem, Zero(f.typ.elem), f.options, pOpts)

\* Types that processField decodes before it looks at settingDefault.
AlwaysDecoded(typ) == typ.k = "time" \/ (typ.k = "custom" /\ (typ.text \/ typ.binary))

Contains(s, sep) == Index(s, sep) # 0
SharesChar(s, sep) == \E i \in 1..Len(s) : \E j \in 1..Len(sep) : s[i] = sep[j]

(***************************************************************************)
(* C1.                                                                     *)
(***************************************************************************)
DefaultFails(f) ==
  HasDefault(f) /\
  processField(TRUE, f.options.defaultValue, f.typ, Before(f), f.options, pOpts).err # NoErr

InputFails(f) == HasInput(f) /\ Coerce(f, InputText(f)).err # NoErr

\* C1: when the coercion of a field's default value fails, Unmarshal returns
\* a FieldError that neither is nor wraps a ParseError, also when the input
\* supplies the field's key; when the coercion of an input value fails, it
\* returns a ParseError that wraps a FieldError, whose Key is the key that
\* was looked up and whose FieldName is the field's name.  A call returns
\* nil only when no coercion failed.
C1_ErrorTier ==
  /\ (pc = "done" /\ err.type \in {"FieldError", "ParseError"}) =>
       LET f == fields[idx]
       IN IF DefaultFails(f)
          THEN /\ err.type = "FieldError"
               /\ ~ErrorsAs(err, "ParseError")
               /\ err.fieldName = f.name
          ELSE /\ InputFails(f)
               /\ err.type = "ParseError"
               /\ ErrorsAs(Unwrap(err), "FieldError")
               /\ err.Key = KeyOf(f)
               /\ err.Key = key
               /\ err.FieldName = f.name
  /\ Succeeded => \A i \in 1..Len(fields) : ~DefaultFails(fields[i]) /\ ~InputFails(fields[i])
  /\ pc = "input" => ~DefaultFails(fields[idx])

\* A default fails to coerce while the input supplies a good value under
\* the field's key.
C1_Witness ==
  /\ pc = "done"
  /\ err.type = "FieldError"
  /\ HasInput(fields[idx])
  /\ ~InputFails(fields[idx])

(***************************************************************************)
(* C2.                                                                     *)
(***************************************************************************)
RECURSIVE PointerBase(_)
PointerBase(typ) == IF typ.k = "ptr" THEN PointerBase(typ.elem) ELSE typ

IsFlattened(typ) == typ.k = "struct"

\* The number of settable leaf fields, at any depth, whose directive is not "-".
RECURSIVE EligibleLeaves(_, _)
EligibleLeaves(typ, i) ==
  IF i > Len(typ.fields) THEN 0
  ELSE LET sf == typ.fields[i]
           base == PointerBase(sf.typ)
           here == IF ~sf.settable \/ sf.tag = <<"-">> THEN 0
                   ELSE IF IsFlattened(base) THEN EligibleLeaves(base, 1)
                   ELSE 1
       IN here + EligibleLeaves(typ, i + 1)

\* A directive is well formed when no name:value segment has a blank value.
WellFormedTag(tag) ==
  \A seg \in {Split(tag, <<",">>)[n] : n \in 1..Len(Split(tag, <<",">>))} :
    Contains(seg, <<":">>) => TrimSpace(SplitN2(seg, <<":">>)[2]) # <<>>

RECURSIVE WellFormedTags(_, _)
WellFormedTags(typ, i) ==
  IF i > Len(typ.fields) THEN TRUE
  ELSE LET sf == typ.fields[i]
           base == PointerBase(sf.typ)
           here == IF ~sf.settable \/ sf.tag = <<"-">> THEN TRUE
                   ELSE WellFormedTag(sf.tag) /\
                        (IsFlattened(base) => WellFormedTags(base, 1))
       IN here /\ WellFormedTags(typ, i + 1)

\* C2: whatever the input, Unmarshal returns ErrInvalidStruct when the
\* target is nil, not a pointer, or a pointer to something that is no
\* struct, and the "no fields" error, which is another error, when the
\* target is a pointer to a struct with well-formed directives that has no
\* settable leaf field other than "-" ones at any depth; with such a field
\* it returns neither.
C2_Structural ==
  pc = "done" =>
    /\ ~ValidTarget => err = ErrInvalidStruct
    /\ (ValidTarget /\ WellFormedTags(v.typ, 1)) =>
         IF EligibleLeaves(v.typ, 1) = 0
         THEN err = ErrNoFields /\ ~ErrorsAs(err, "ErrInvalidStruct")
         ELSE err.type \notin {"NoFields", "ErrInvalidStruct"}

\* The "no fields" error of a struct whose fields are all ignored, unexported
\* or empty structs, for an input that has a key named as an ignored field.
C2_Witness ==
  /\ pc = "done"
  /\ err = ErrNoFields
  /\ Len(v.typ.fields) > 0
  /\ ~data.isNil
  /\ <<"X">> \in DOMAIN data.m
  /\ Len(data.m[<<"X">>]) > 0

(***************************************************************************)
(* C3.                                                                     *)
(***************************************************************************)
\* C3 as stated: after a successful call a field whose key is absent or has
\* no values holds its default when its directive has one (that coerces),
\* and is as it was before the call otherwise.
C3_AbsentKeyDefaultOrUnchanged ==
  Succeeded =>
    \A i \in 1..Len(fields) :
      LET f == fields[i]
      IN ~HasInput(f) =>
           After(f) = IF HasDefault(f) /\ Coerce(f, f.options.defaultValue).err = NoErr
                      THEN Coerce(f, f.options.defaultValue).val
                      ELSE Before(f)

\* C3, amended: after a successful call a field whose key is absent or has
\* no values holds its default when its directive has one and the field was
\* zero before the call or is a timestamp or has a custom decoder, and is as
\* it was before the call otherwise.
C3_AbsentKeyDefaultIfZero ==
  Succeeded =>
    \A i \in 1..Len(fields) :
      LET f == fields[i]
      IN ~HasInput(f) =>
           After(f) = IF HasDefault(f) /\ (IsZero(Before(f)) \/ AlwaysDecoded(f.typ))
                      THEN Coerce(f, f.options.defaultValue).val
                      ELSE Before(f)

\* A nil input: a nil pointer without a default stays nil, and a nil pointer
\* with a default points to the default.
C3_Witness ==
  /\ Succeeded
  /\ data.isNil
  /\ \E i, j \in 1..Len(fields) :
       /\ ~HasDefault(fields[i]) /\ Before(fields[i]) = VNilPtr /\ After(fields[i]) = VNilPtr
       /\ HasDefault(fields[j]) /\ Before(fields[j]) = VNilPtr
       /\ After(fields[j]) = VPtr(VString(fields[j].options.defaultValue))

C5_DefaultOnZeroInput ==
  Succeeded =>
    \A i \in 1..Len(fields) :
      LET f == fields[i]
      IN (HasDefault(f) /\ HasInput(f) /\ IsZero(Coerce(f, InputText(f)).val)) =>
           After(f) = Coerce(f, f.options.defaultValue).val

(***************************************************************************)
(* C6.                                                                     *)
(***************************************************************************)
\* C6: after a successful call a field that has a default, that was not zero
\* before the call and whose key is absent is as it was before the call, for
\* every type of field.
C6_DefaultNeverOverwrites ==
  Succeeded =>
    \A i \in 1..Len(fields) :
      LET f == fields[i]
      IN (HasDefault(f) /\ ~HasInput(f) /\ ~IsZero(Before(f))) => After(f) = Before(f)

(***************************************************************************)
(* C7.                                                                     *)
(***************************************************************************)
\* The fields of the target struct with the given directive.
FieldsTagged(tag) == {i \in 1..Len(v.typ.fields) : v.typ.fields[i].tag = tag}

\* C7: a field whose directive is "-" is no descriptor and keeps the value it
\* had before the call, whatever the input holds under its name; a field
\* whose directive is "-," is a descriptor that reads the input under the
\* key "-".
C7_DashDirective ==
  ValidTarget =>
    /\ \A i \in FieldsTagged(<<"-">>) :
         /\ mem.f[i] = mem0.f[i]
         /\ \A j \in 1..Len(fields) : Head(fields[j].path) # i
    /\ \A i \in FieldsTagged(<<"-", ",">>) :
         /\ pc \in {"loop", "input"} =>
              \E j \in 1..Len(fields) : fields[j].path = <<i>> /\ LookupKey(fields[j]) = <<"-">>
         /\ (Succeeded /\ ~data.isNil /\ <<"-">> \in DOMAIN data.m /\ data.m[<<"-">>] # <<>>) =>
              mem.f[i] = VString(Join(data.m[<<"-">>], ExpectedDelim(setParseOpts)))
         /\ (Succeeded /\ (data.isNil \/ <<"-">> \notin DOMAIN data.m)) => mem.f[i] = mem0.f[i]

\* The input has values under the name of the "-" field and under "-": the
\* first field is as before, the second holds the value of "-".
C7_Witness ==
  /\ Succeeded
  /\ v.typ = TSkip
  /\ ~data.isNil
  /\ {<<"X">>, <<"-">>} \subseteq DOMAIN data.m
  /\ data.m[<<"X">>] = <<<<"w">>>>
  /\ data.m[<<"-">>] = <<<<"w">>>>
  /\ mem.f[1] = mem0.f[1]
  /\ mem.f[2] = VString(<<"w">>)

(***************************************************************************)
(* C8.                                                                     *)
(***************************************************************************)
\* The field declarations of a struct type, at any depth.
RECURSIVE AllDecls(_)
AllDecls(typ) ==
  UNION {{typ.fields[i]} \cup
         (IF IsFlattened(PointerBase(typ.fields[i].typ))
          THEN AllDecls(PointerBase(typ.fields[i].typ)) ELSE {}) : i \in 1..Len(typ.fields)}

\* The declaration a descriptor comes from (names are unique in a target).
DeclOf(f) == CHOOSE d \in AllDecls(v.typ) : d.name = f.name

\* The key a directive asks for: its first comma-separated segment when that
\* has no colon and is not blank, the field name otherwise.
ExpectedKey(decl) ==
  LET first == SplitN2(decl.tag, <<",">>)[1]
  IN IF ~Contains(first, <<":">>) /\ TrimSpace(first) # <<>> THEN TrimSpace(first)
     ELSE decl.name

\* C8: the key a descriptor is looked up under is never empty: it is the
\* first segment of the directive when that has no colon and is not blank,
\* and the field name otherwise; the key of a lookup made is such a key.
C8_LookupKey ==
  /\ \A j \in 1..Len(fields) :
       /\ LookupKey(fields[j]) # <<>>
       /\ LookupKey(fields[j]) = ExpectedKey(DeclOf(fields[j]))
  /\ (pc = "loop" /\ idx > 1) => key = ExpectedKey(DeclOf(fields[idx - 1]))
  /\ (pc = "done" /\ err.type = "ParseError") => key = ExpectedKey(DeclOf(fields[idx]))

\* The directives ",", " ", "default:5", " k ", "layout:x,e" and none.
C8_Witness ==
  /\ Succeeded
  /\ v.typ = TKeys
  /\ [j \in 1..Len(fields) |-> LookupKey(fields[j])] =
       <<<<"A">>, <<"B">>, <<"C">>, <<"k">>, <<"E">>, <<"F">>>>
  /\ key = <<"F">>

(***************************************************************************)
(* C9.                                                                     *)
(***************************************************************************)
Strings(ss) == VSlice([j \in 1..Len(ss) |-> VString(ss[j])])

\* C9: the delimiter of a call is ";" when no WithDelimiter is passed or the
\* last one passed carries the empty string, and the string of the last one
\* otherwise; that delimiter joins the values of a key and splits the text
\* of slices and of maps, also the text of a default, and a text in which
\* it does not occur is not split.
C9_Delimiter ==
  LET D == ExpectedDelim(setParseOpts)
  IN /\ pc # "opts" => Delim(pOpts) = D
     /\ pc = "loop" /\ idx > 1 /\ HasInput(fields[idx - 1]) =>
          value = Join(data.m[KeyOf(fields[idx - 1])], D)
     /\ Succeeded =>
          \A i \in 1..Len(fields) :
            LET f == fields[i]
                text == IF HasInput(f) THEN InputText(f) ELSE f.options.defaultValue
                read == HasInput(f) \/ (HasDefault(f) /\ IsZero(Before(f)))
            IN /\ (f.typ = TSlice(TString) /\ read) =>
                    /\ After(f) = Strings(Split(text, D))
                    /\ ~Contains(text, D) => After(f) = Strings(<<text>>)
               /\ (f.typ.k = "map" /\ read /\ TrimSpace(text) # <<>>) =>
                    DOMAIN After(f).m =
                      {VString(SplitN2(Split(text, D)[n], <<":">>)[1]) :
                         n \in 1..Len(Split(text, D))}

\* Two options, the last one "|": the values "x;y" and "x|y" are joined by
\* "|" and split at "|" only.
C9_Witness ==
  /\ Succeeded
  /\ Len(setParseOpts) = 2
  /\ setParseOpts[1] = <<"a", "a">>
  /\ setParseOpts[2] = <<"|">>
  /\ v.typ = TSlices
  /\ ~data.isNil
  /\ <<"l">> \in DOMAIN data.m
  /\ data.m[<<"l">>] = <<<<"x", ";", "y">>, <<"x", "|", "y">>>>
  /\ mem.f[1] = Strings(<<<<"x", ";", "y">>, <<"x">>, <<"y">>>>)

(***************************************************************************)
(* C10.                                                                    *)
(***************************************************************************)
\* The slice of the coercions of the texts ss to the element type of f.
Elems(f, ss) == VSlice([j \in 1..Len(ss) |-> ElemCoerce(f, ss[j]).val])

\* C10 as stated: a slice field whose key has the values v1..vn ends as the
\* coercions of the parts of the joined values; when no vi contains the
\* delimiter these are n elements, the i-th coerced from vi; one empty value
\* gives one element.
C10_SliceOfValues ==
  Succeeded =>
    \A i \in 1..Len(fields) :
      LET f == fields[i]
          D == ExpectedDelim(setParseOpts)
          vs == data.m[KeyOf(f)]
      IN (f.typ.k = "slice" /\ HasInput(f)) =>
           /\ After(f) = Elems(f, Split(Join(vs, D), D))
           /\ (\A n \in 1..Len(vs) : ~Contains(vs[n], D)) => After(f) = Elems(f, vs)
           /\ vs = <<<<>>>> => Len(After(f).elems) = 1

\* C10, amended: a slice field whose key has the values v1..vn ends as the
\* coercions of the parts of the joined values; when no vi contains a
\* character of the delimiter these are n elements, the i-th coerced from
\* vi; one empty value gives one element.
C10_SliceOfValuesDisjoint ==
  Succeeded =>
    \A i \in 1..Len(fields) :
      LET f == fields[i]
          D == ExpectedDelim(setParseOpts)
          vs == data.m[KeyOf(f)]
      IN (f.typ.k = "slice" /\ HasInput(f)) =>
           /\ After(f) = Elems(f, Split(Join(vs, D), D))
           /\ (\A n \in 1..Len(vs) : ~SharesChar(vs[n], D)) => After(f) = Elems(f, vs)
           /\ vs = <<<<>>>> => Len(After(f).elems) = 1

\* The values "" and "a" under the delimiter "|": two elements, "" and "a".
C10_Witness ==
  /\ Succeeded
  /\ v.typ = TSlices
  /\ ExpectedDelim(setParseOpts) = <<"|">>
  /\ ~data.isNil
  /\ <<"l">> \in DOMAIN data.m
  /\ data.m[<<"l">>] = <<<<>>, <<"a">>>>
  /\ mem.f[1] = Strings(<<<<>>, <<"a">>>>)

(***************************************************************************)
(* C11.                                                                    *)
(***************************************************************************)
\* The input step of descriptor i has run: the call returned nil, or it
\* returned the ParseError of descriptor i.
InputRan(i) ==
  pc = "done" /\ (err = ErrNil \/ (err.type = "ParseError" /\ idx = i))

\* The value of f after its default step.
AfterDefault(f) ==
  IF HasDefault(f)
  THEN processField(TRUE, f.options.defaultValue, f.typ, Before(f), f.options, pOpts).val
  ELSE Before(f)

Colons(s) == Cardinality({n \in 1..Len(s) : s[n] = ":"})
KeySide(pair) == SubSeq(pair, 1, Index(pair, <<":">>) - 1)
ValueSide(pair) == SubSeq(pair, Index(pair, <<":">>) + 1, Len(pair))

\* A pair that has no colon, or several.
NotOneColon(pair) == Colons(pair) # 1

\* A pair that does not split around a colon into two non-empty sides.
NotTwoNonEmptySides(pair) ==
  Colons(pair) # 1 \/ KeySide(pair) = <<>> \/ ValueSide(pair) = <<>>

\* The pairs before pair n coerce to the key and element types of f.
EarlierPairsCoerce(f, pairs, n) ==
  \A j \in 1..(n - 1) :
    /\ Colons(pairs[j]) = 1
    /\ processField(FALSE, KeySide(pairs[j]), f.typ.key, Zero(f.typ.key),
                    f.options, pOpts).err = NoErr
    /\ processField(FALSE, ValueSide(pairs[j]), f.typ.elem, Zero(f.typ.elem),
                    f.options, pOpts).err = NoErr

\* The input step of a map field f with non-blank input whose first pair in
\* the set bad is pair n: the call fails and f keeps the value it had before
\* the step, and when the pairs before n are good the error is the
\* malformed-pair error citing pair n.
MalformedPairFails(f, pairs, bad) ==
  bad # {} =>
    LET n == CHOOSE a \in bad : \A b \in bad : a <= b
    IN /\ err.type = "ParseError"
       /\ After(f) = AfterDefault(f)
       /\ EarlierPairsCoerce(f, pairs, n) =>
            err.fe.err = Err("invalid map item", pairs[n])

\* C11 as stated: for a map field with non-blank input, a pair that has no
\* colon, several colons, an empty key side or an empty value side makes
\* the call fail with the malformed-pair error citing that pair, and the
\* field is not assigned.
C11_MalformedPair ==
  \A i \in 1..Len(fields) :
    LET f == fields[i]
        pairs == Split(InputText(f), ExpectedDelim(setParseOpts))
    IN (InputRan(i) /\ f.typ.k = "map" /\ HasInput(f) /\ TrimSpace(InputText(f)) # <<>>) =>
         MalformedPairFails(f, pairs, {n \in 1..Len(pairs) : NotTwoNonEmptySides(pairs[n])})

\* C11, amended: for a map field with non-blank input, a pair that has no
\* colon or several colons makes the call fail with the malformed-pair
\* error citing that pair, and the field is not assigned; the malformed-pair
\* error is returned for no other pair: a pair with one colon and an empty
\* side is coerced as any other, and a map of strings to strings takes the
\* empty side as the empty string.
C11_MalformedPairColons ==
  \A i \in 1..Len(fields) :
    LET f == fields[i]
        pairs == Split(InputText(f), ExpectedDelim(setParseOpts))
    IN (InputRan(i) /\ f.typ.k = "map" /\ HasInput(f) /\ TrimSpace(InputText(f)) # <<>>) =>
         /\ MalformedPairFails(f, pairs, {n \in 1..Len(pairs) : NotOneColon(pairs[n])})
         /\ (err.type = "ParseError" /\ err.fe.err.e = "invalid map item") =>
              \E n \in 1..Len(pairs) : NotOneColon(pairs[n]) /\ err.fe.err.cite = pairs[n]
         /\ (f.typ = TMap(TString, TString) /\ \A n \in 1..Len(pairs) : ~NotOneColon(pairs[n])) =>
              /\ err = ErrNil
              /\ \A n \in 1..Len(pairs) : VString(KeySide(pairs[n])) \in DOMAIN After(f).m
              /\ After(f).m[VString(KeySide(pairs[Len(pairs)]))] =
                   VString(ValueSide(pairs[Len(pairs)]))

\* The values "a:b" and "a:b:c": the second pair has two colons, the call
\* fails citing it, and the map set before the call is still there.
C11_Witness ==
  /\ pc = "done"
  /\ v.typ = TStringMap
  /\ ~data.isNil
  /\ <<"s">> \in DOMAIN data.m
  /\ data.m[<<"s">>] = <<<<"a", ":", "b">>, <<"a", ":", "b", ":", "c">>>>
  /\ err.type = "ParseError"
  /\ err.fe.err = Err("invalid map item", <<"a", ":", "b", ":", "c">>)
  /\ mem = mem0
  /\ ~IsZero(mem.f[1])

(***************************************************************************)
(* C12.                                                                    *)
(***************************************************************************)
\* A type decoded by a method of its own; the timestamp type, which
\* processField hands to parseTime before it looks for the methods, is none.
CustomDecoded(typ) == typ.k # "time" /\ (HasText(typ) \/ HasBinary(typ))

\* What the method that has priority for typ stores for the text s.
DecodedBy(typ, s) ==
  IF typ.k = "custom" /\ typ.text THEN UnmarshalText(s)
  ELSE IF typ.k = "custom" /\ typ.binary THEN UnmarshalBinary(s)
  ELSE VOther

AfterBoth(f) ==
  IF HasInput(f)
  THEN processField(FALSE, InputText(f), f.typ, AfterDefault(f), f.options, pOpts).val
  ELSE AfterDefault(f)

\* Neither step of f fails.
Passes(f) == ~DefaultFails(f) /\ ~InputFails(f)

\* C13: a call that returns a FieldError or a ParseError returns the error
\* of the first descriptor, in the order of the flattening, one of whose
\* coercions fails, the default before the input; every descriptor before
\* it holds what its own default and input steps produced, and every
\* descriptor after it holds what it held before the call.  A call returns
\* nil only when no coercion fails.
C13_FirstFailureStops ==
  /\ (pc = "done" /\ err.type \in {"FieldError", "ParseError"}) =>
       LET f == fields[idx]
       IN /\ \A j \in 1..(idx - 1) :
               Passes(fields[j]) /\ After(fields[j]) = AfterBoth(fields[j])
          /\ \A j \in (idx + 1)..Len(fields) : After(fields[j]) = Before(fields[j])
          /\ ~Passes(f)
          /\ IF DefaultFails(f)
             THEN err = DefaultError(f, processField(TRUE, f.options.defaultValue, f.typ,
                                                     Before(f), f.options, pOpts).err)
             ELSE err = InputError(f, KeyOf(f), InputText(f), Coerce(f, InputText(f)).err)
  /\ Succeeded =>
       \A j \in 1..Len(fields) : Passes(fields[j]) /\ After(fields[j]) = AfterBoth(fields[j])

\* The second of three fields fails on its input: the first holds its
\* input, the third, whose default is 3 and whose key has a good value,
\* is still zero.
C13_Witness ==
  /\ pc = "done"
  /\ v.typ = TThree
  /\ err.type = "ParseError"
  /\ idx = 2
  /\ HasInput(fields[1])
  /\ HasInput(fields[3])
  /\ ~InputFails(fields[3])
  /\ mem.f[1] = VInt(5)
  /\ mem.f[3] = VInt(0)

(***************************************************************************)
(* C14.                                                                    *)
(***************************************************************************)
\* The tokens of the text s after "now": a token begins at a sign and ends
\* before the next sign.
TokenStarts(s) == {i \in 1..Len(s) : s[i] \in {"+", "-"}}
TokenEnd(s, i) ==
  LET later == {j \in TokenStarts(s) : j > i}
  IN IF later = {} THEN Len(s) ELSE (CHOOSE j \in later : \A k \in later : j <= k) - 1
TokenDigits(s, i) == SubSeq(s, i + 1, TokenEnd(s, i) - 1)
TokenId(s, i) == s[TokenEnd(s, i)]

\* s is a sequence of tokens of the form [+-]<digits>[ymd].
IsTokens(s) ==
  /\ s # <<>> => 1 \in TokenStarts(s)
  /\ \A i \in TokenStarts(s) :
       /\ TokenDigits(s, i) # <<>>
       /\ \A n \in 1..Len(TokenDigits(s, i)) :
            TokenDigits(s, i)[n] \in {"0", "1", "2", "3", "4", "5", "6", "7", "8", "9"}
       /\ TokenId(s, i) \in {"y", "m", "d"}

\* The signed value of the last token of s with identifier id, 0 without one.
LastOffset(s, id) ==
  LET with == {i \in TokenStarts(s) : TokenId(s, i) = id}
      last == CHOOSE i \in with : \A j \in with : j <= i
  IN IF with = {} THEN 0
     ELSE IF s[last] = "-" THEN 0 - DigitsValue(TokenDigits(s, last), 10)
     ELSE DigitsValue(TokenDigits(s, last), 10)

\* C14: for the value "now" followed by tokens of the form
\* [+-]<digits>[ymd], parseTime returns now moved by the years, months and
\* days of the last token with the identifier y, m and d, and by 0 where no
\* token has the identifier: offsets with the same identifier are not added
\* up, and the order of tokens with different identifiers makes no
\* difference.  The value "now" is now itself.
C14_LastTokenWins ==
  (pc = "done" /\ HasPrefix(value, NowPrefix)
     /\ IsTokens(SubSeq(value, Len(NowPrefix) + 1, Len(value)))) =>
    LET s == SubSeq(value, Len(NowPrefix) + 1, Len(value))
    IN /\ err = ErrNil
       /\ After(fields[idx]) =
            VTime("now", <<>>, LastOffset(s, "y"), LastOffset(s, "m"), LastOffset(s, "d"))

\* now+1y-12m+12y is now moved by 12 years and -12 months.
C14_Witness ==
  /\ pc = "done"
  /\ value = NowPrefix \o <<"+", "1", "y", "-", "1", "2", "m", "+", "1", "2", "y">>
  /\ err = ErrNil
  /\ mem.f[1] = VTime("now", <<>>, 12, 0 - 12, 0)

(***************************************************************************)
(* C15.                                                                    *)
(***************************************************************************)
\* The fields a handle goes through, without the pointers it follows.
FieldSteps(path) == SelectSeq(path, LAMBDA step : step # 0)

\* The declared type of the field at the end of the field steps loc.
RECURSIVE TypeAt(_, _)
TypeAt(typ, loc) ==
  IF loc = <<>> THEN typ
  ELSE TypeAt(PointerBase(typ).fields[Head(loc)].typ, Tail(loc))

\* The settable leaf fields of the struct type typ whose directive is not
\* "-", depth first in the order of declaration: a field of a struct type
\* with no decoder of its own, behind a pointer or not, stands for its own
\* leaves, any other field for itself.
RECURSIVE LeavesFrom(_, _, _)
LeavesFrom(typ, loc, i) ==
  IF i > Len(typ.fields) THEN <<>>
  ELSE LET sf == typ.fields[i]
           base == PointerBase(sf.typ)
           here == IF ~sf.settable \/ sf.tag = <<"-">> THEN <<>>
                   ELSE IF IsFlattened(base) THEN LeavesFrom(base, loc \o <<i>>, 1)
                   ELSE <<[name |-> sf.name, loc |-> loc \o <<i>>]>>
       IN here \o LeavesFrom(typ, loc, i + 1)

\* The pointers the handle path follows are not nil in m.
RECURSIVE Allocated(_, _)
Allocated(m, path) ==
  IF path = <<>> THEN TRUE
  ELSE IF Head(path) = 0 THEN ~m.isNil /\ Allocated(m.elem, Tail(path))
  ELSE Allocated(m.f[Head(path)], Tail(path))

\* C15: the descriptors of a destination are, in this order, the settable
\* leaf fields whose directive is not "-", depth first in the order of
\* declaration, one descriptor each: a struct field with no decoder of its
\* own, direct or behind a pointer (allocated when it was nil), is no
\* descriptor but gives way to the descriptors of its fields; a struct field
\* with a decoder of its own and any field that is no struct is one leaf.
C15_Flattening ==
  (pc \in {"loop", "input", "done"} /\ fields # <<>>) =>
    /\ [i \in 1..Len(fields) |->
          [name |-> fields[i].name, loc |-> FieldSteps(fields[i].path)]]
         = LeavesFrom(v.typ, <<>>, 1)
    /\ \A i \in 1..Len(fields) :
         /\ ~IsFlattened(fields[i].typ)
         /\ PointerBase(fields[i].typ) =
              PointerBase(TypeAt(v.typ, FieldSteps(fields[i].path)))
         /\ Allocated(mem, fields[i].path)

\* A destination with a struct field that has a field X, a nil pointer to
\* a struct with a field Y, and a field Z, and with a field W after it: the
\* descriptors are X, Y, Z, W, and the pointer is allocated.
C15_Witness ==
  /\ pc = "loop"
  /\ v.typ = TDeep
  /\ mem0.f[1].f[2].isNil
  /\ ~mem.f[1].f[2].isNil
  /\ [i \in 1..Len(fields) |-> fields[i].name] = <<<<"X">>, <<"Y">>, <<"Z">>, <<"W">>>>
  /\ fields[2].path = <<1, 2, 0, 1>>

(***************************************************************************)
(* C16.                                                                    *)
(***************************************************************************)
\* The orders the descriptors can be taken in.
Orders(n) == {p \in [1..n -> 1..n] : \A a, b \in 1..n : p[a] = p[b] => a = b}

\* The outcome of the loop of Unmarshal over the descriptors in the order p,
\* from the destination as the flattening left it.
OutcomeIn(p) ==
  Loop([mem |-> extractFields(v, mem0).mem, err |-> ErrNil],
       [n \in 1..Len(fields) |-> fields[p[n]]])

\* C16 as stated: the error returned and the final destination are the
\* same whatever the order the descriptors are processed in.
C16_OrderIndependent ==
  (pc = "done" /\ fields # <<>>) =>
    \A p \in Orders(Len(fields)) : OutcomeIn(p) = [mem |-> mem, err |-> err]

\* C16, amended: when no coercion fails, the call succeeds and the final
\* destination is the same whatever the order the descriptors are processed
\* in; when some coercion fails, the call fails in every order (but the
\* error returned and the fields assigned are those of the order taken).
C16_OrderIndependentOnSuccess ==
  (pc = "done" /\ fields # <<>>) =>
    /\ OutcomeIn([n \in 1..Len(fields) |-> n]) = [mem |-> mem, err |-> err]
    /\ \A p \in Orders(Len(fields)) :
         IF err = ErrNil THEN OutcomeIn(p) = [mem |-> mem, err |-> ErrNil]
         ELSE OutcomeIn(p).err # ErrNil

\* Three fields, each with a default and each with input that coerces, the
\* second set before the call: the call succeeds with every field assigned.
C16_Witness ==
  /\ Succeeded
  /\ v.typ = TThree
  /\ \A i \in 1..3 : HasInput(fields[i])
  /\ mem0.f[2] = VInt(9)
  /\ mem.f[1] = VInt(5)
  /\ mem.f[2] = VInt(5)
  /\ mem.f[3] = VInt(5)

(***************************************************************************)
(* C17.                                                                    *)
(***************************************************************************)
\* C17: when Unmarshal returns ErrInvalidStruct or the "no fields" error,
\* the destination is as it was before the call: every field has the value
\* it had, and a pointer to a nested struct that was nil is still nil.
C17_StructuralErrorNoMutation ==
  (pc = "done" /\ err \in {ErrInvalidStruct, ErrNoFields}) => mem = mem0

(***************************************************************************)
(* C18.                                                                    *)
(***************************************************************************)
\* C18: no call of Unmarshal ends otherwise than by returning nil or an
\* error: the calls of extractFields for nested structs and pointers never
\* nest without bound and exhaust the stack, whatever the type of the
\* destination, a struct type with a pointer to itself among its fields
\* included.
C18_Terminates == pc # "overflow"

====
